---- MODULE Spec2Model ----
(***************************************************************************)
(* vdexExtractor: the VDEX container parser (vdex.c), the version          *)
(* dispatcher and the driver loop (vdexExtractor.c).                       *)
(*                                                                         *)
(* A mapped file is a sequence of bytes (0..255); byte k of the C buffer   *)
(* is element k+1 of the sequence.  A u4 is kept as two 16-bit halves      *)
(* [hi, lo] so that 32-bit wrap-around is computed exactly; a pointer into *)
(* the mapping is kept as its distance from the buffer base, also in       *)
(* halves but with an unbounded high half (LP64 pointer arithmetic does    *)
(* not wrap at 2^32).                                                      *)
(***************************************************************************)
EXTENDS Integers, Sequences, FiniteSets, TLC

VARIABLES
  \* main(): the input list, the run arguments, the position in main, the loop
  \* index, the live mapping, the bound backend, the calls made so far, the
  \* counters and the exit status; and what was done to the file mappings, in
  \* order
  files, runArgs, pc, f, buf, backend, calls,
  processedVdexCnt, processedDexCnt, mainRet, mapLog,
  \* a walk over the DEX files of one mapped container: the buffer, the
  \* caller's offset variable, the calls made; and the section layout read off it
  cursor, offset, iterLog, layout,
  \* repeated checksum updates: the file named on the command line, the
  \* checksums loaded from the sidecar, what the output sink was handed, and
  \* the results returned
  vdexFile, checksums, sink, rets

mainVars == << files, runArgs, pc, f, buf, backend, calls,
               processedVdexCnt, processedDexCnt, mainRet, mapLog >>
iterVars == << cursor, offset, iterLog, layout >>
csumVars == << vdexFile, checksums, sink, rets >>
vars == << mainVars, iterVars, csumVars >>

\* ------------------------------------------------------------------ words

W16 == 2^16

\* A u4 value: value = hi * 2^16 + lo.
U4(hi, lo) == [hi |-> hi, lo |-> lo]

\* A small non-negative integer as a u4.
U4Of(i) == U4((i \div W16) % W16, i % W16)

\* u4 + u4, truncated to 32 bits.
U4Add(a, b) ==
  LET s == a.lo + b.lo
  IN  U4((a.hi + b.hi + (s \div W16)) % W16, s % W16)

\* size_t product k * u4 truncated to u4 on return (k small).
U4Scale(k, a) ==
  LET s == k * a.lo
  IN  U4((k * a.hi + (s \div W16)) % W16, s % W16)

\* Distances from the buffer base (pointer arithmetic, size_t arithmetic):
\* the same halves, the high half unbounded.
WideAdd(p, a) ==
  LET s == p.lo + a.lo
  IN  [hi |-> p.hi + a.hi + (s \div W16), lo |-> s % W16]

WideScale(k, a) ==
  LET s == k * a.lo
  IN  [hi |-> k * a.hi + (s \div W16), lo |-> s % W16]

WideLeq(p, q) == p.hi < q.hi \/ (p.hi = q.hi /\ p.lo <= q.lo)

\* The value fits in 32 bits.
FitsU4(p) == p.hi < W16

\* Little-endian store and load of a u4 (the target is little-endian).
LE(a) == << a.lo % 256, a.lo \div 256, a.hi % 256, a.hi \div 256 >>

ReadU4(mem, off) ==
  U4(mem[off + 3] + 256 * mem[off + 4], mem[off + 1] + 256 * mem[off + 2])

\* ----------------------------------------------------------- vdex.h

kNumVdexVersions == 2
kVdexVersionLen == 4

\* 'v' 'd' 'e' 'x'
kVdexMagic == << 118, 100, 101, 120 >>

\* "006\0" and "010\0"
kVdexMagicVersions == << << 48, 48, 54, 0 >>, << 48, 49, 48, 0 >> >>

\* sizeof(vdexHeader): packed, magic[4] version[4] and four u4.
SizeofVdexHeader == 24
\* sizeof(VdexChecksum)
SizeofVdexChecksum == 4

\* Offsets of the header fields in the packed struct.
OffVersion == 4
OffNumberOfDexFiles == 8
OffDexSize == 12
OffVerifierDepsSize == 16
OffQuickeningInfoSize == 20

\* dexHeader (dex.h): 0x70 bytes, fileSize after magic[8], checksum, signature[20].
SizeofDexHeader == 112
OffDexFileSize == 32

numberOfDexFiles(vdexBuf) == ReadU4(vdexBuf, OffNumberOfDexFiles)
dexSize(vdexBuf) == ReadU4(vdexBuf, OffDexSize)
verifierDepsSize(vdexBuf) == ReadU4(vdexBuf, OffVerifierDepsSize)
quickeningInfoSize(vdexBuf) == ReadU4(vdexBuf, OffQuickeningInfoSize)

\* ----------------------------------------------------------- vdex.c

vdex_isMagicValid(vdexBuf) ==
  SubSeq(vdexBuf, 1, Len(kVdexMagic)) = kVdexMagic

vdex_isVersionValid(vdexBuf) ==
  \E i \in 1..kNumVdexVersions :
    SubSeq(vdexBuf, OffVersion + 1, OffVersion + kVdexVersionLen) = kVdexMagicVersions[i]

\* Mutant: the version is not looked at.
vdex_isValidVdex_MagicOnly(vdexBuf) == vdex_isMagicValid(vdexBuf)

vdex_isValidVdex(vdexBuf) ==
  vdex_isMagicValid(vdexBuf) /\ vdex_isVersionValid(vdexBuf)

vdex_hasDexSection(vdexBuf) == dexSize(vdexBuf) # U4Of(0)

vdex_GetSizeOfChecksumsSection(vdexBuf) ==
  U4Scale(SizeofVdexChecksum, numberOfDexFiles(vdexBuf))

\* Pointer accessors return the distance from cursor.
vdex_DexBegin(vdexBuf) ==
  WideAdd(U4Of(SizeofVdexHeader), vdex_GetSizeOfChecksumsSection(vdexBuf))

vdex_DexBeginOffset(vdexBuf) ==
  U4Add(U4Of(SizeofVdexHeader), vdex_GetSizeOfChecksumsSection(vdexBuf))

vdex_DexEnd(vdexBuf) == WideAdd(vdex_DexBegin(vdexBuf), dexSize(vdexBuf))

\* Mutant: the end of the DEX section measured from the end of the header,
\* the checksum table forgotten.
vdex_DexEndOffset_NoChecksums(vdexBuf) == U4Add(U4Of(SizeofVdexHeader), dexSize(vdexBuf))

vdex_DexEndOffset(vdexBuf) == U4Add(vdex_DexBeginOffset(vdexBuf), dexSize(vdexBuf))

vdex_GetVerifierDepsData(vdexBuf) == WideAdd(vdex_DexBegin(vdexBuf), dexSize(vdexBuf))

vdex_GetVerifierDepsDataOffset(vdexBuf) ==
  U4Add(vdex_DexBeginOffset(vdexBuf), dexSize(vdexBuf))

vdex_GetVerifierDepsDataSize(vdexBuf) == verifierDepsSize(vdexBuf)

vdex_GetQuickeningInfo(vdexBuf) ==
  WideAdd(vdex_GetVerifierDepsData(vdexBuf), verifierDepsSize(vdexBuf))

vdex_GetQuickeningInfoOffset(vdexBuf) ==
  U4Add(vdex_GetVerifierDepsDataOffset(vdexBuf), verifierDepsSize(vdexBuf))

vdex_GetQuickeningInfoSize(vdexBuf) == quickeningInfoSize(vdexBuf)

\* ----------------------------------------------------------- memory

\* What a load from outside the mapping may give: the access is undefined, the
\* build either faults or reads whatever lies there.
OobU4 == { U4Of(0), U4Of(SizeofDexHeader), U4(W16 - 1, W16 - 1) }

\* A load that faulted.
SIGSEGV == [hi |-> -1, lo |-> -1]

\* The possible results of loading a u4 at distance p from the base of mem.
InMapping(mem, p) == p.hi = 0 /\ p.lo + 4 <= Len(mem)

LoadU4(mem, p) ==
  IF InMapping(mem, p)
  THEN { ReadU4(mem, p.lo) }
  ELSE OobU4 \cup { SIGSEGV }

NULL == [hi |-> -2, lo |-> -2]

\* vdex_GetNextDexFileData(cursor, &offset): the possible outcomes, each the
\* returned pointer (distance from cursor, or NULL), the fileSize that was read,
\* the value left in *offset, and whether the read was inside the mapping.
vdex_GetNextDexFileData(vdexBuf, off) ==
  IF off = U4Of(0)
  THEN IF vdex_hasDexSection(vdexBuf)
       THEN LET dexBuf == vdex_DexBegin(vdexBuf)
                first == U4Add(U4Of(SizeofVdexHeader), vdex_GetSizeOfChecksumsSection(vdexBuf))
                pFileSize == WideAdd(dexBuf, U4Of(OffDexFileSize))
            IN  { IF fileSize = SIGSEGV
                  THEN [fault |-> TRUE, ret |-> NULL, fileSize |-> fileSize, offset |-> first,
                        inMapping |-> FALSE]
                  ELSE [fault |-> FALSE, ret |-> dexBuf, fileSize |-> fileSize,
                        offset |-> U4Add(first, fileSize),
                        inMapping |-> InMapping(vdexBuf, pFileSize)]
                  : fileSize \in LoadU4(vdexBuf, pFileSize) }
       ELSE { [fault |-> FALSE, ret |-> NULL, fileSize |-> U4Of(0), offset |-> off,
               inMapping |-> TRUE] }
  ELSE LET dexBuf == off
           pFileSize == WideAdd(dexBuf, U4Of(OffDexFileSize))
       IN  { IF fileSize = SIGSEGV
             THEN [fault |-> TRUE, ret |-> NULL, fileSize |-> fileSize, offset |-> off,
                   inMapping |-> FALSE]
             ELSE LET dexBufMax == WideAdd(dexBuf, fileSize)
                  IN  IF dexBufMax = vdex_DexEnd(vdexBuf) \/ WideLeq(dexBufMax, vdex_DexEnd(vdexBuf))
                      THEN [fault |-> FALSE, ret |-> dexBuf, fileSize |-> fileSize,
                            offset |-> U4Add(off, fileSize),
                            inMapping |-> InMapping(vdexBuf, pFileSize)]
                      ELSE [fault |-> FALSE, ret |-> NULL, fileSize |-> fileSize,
                            offset |-> off, inMapping |-> InMapping(vdexBuf, pFileSize)]
             : fileSize \in LoadU4(vdexBuf, pFileSize) }

\* &checksums[fileIdx] as a distance from the buffer base (fileIdx small).
ChecksumOffset(fileIdx) == SizeofVdexHeader + SizeofVdexChecksum * fileIdx

\* A store of a u4 at distance off; the bytes that fall outside the mapping are
\* not part of the file.
StoreU4(mem, off, value) ==
  [k \in 1..Len(mem) |-> IF k - 1 \in off..(off + 3) THEN LE(value)[k - off] ELSE mem[k]]

vdex_GetLocationChecksum(mem, fileIdx) == ReadU4(mem, ChecksumOffset(fileIdx))

\* Mutant: the table taken to start at the buffer base, the header forgotten.
vdex_SetLocationChecksum_NoHeader(mem, fileIdx, value) ==
  StoreU4(mem, SizeofVdexChecksum * fileIdx, value)

\* Mutant: the new value added to the stored one.
vdex_SetLocationChecksum_Add(mem, fileIdx, value) ==
  StoreU4(mem, ChecksumOffset(fileIdx),
          U4Add(vdex_GetLocationChecksum(mem, fileIdx), value))

vdex_SetLocationChecksum(mem, fileIdx, value) ==
  StoreU4(mem, ChecksumOffset(fileIdx), value)

\* Mutant: only too few checksums are refused.
CsumCountMismatch_TooFew(nCsums, mem) ==
  nCsums < numberOfDexFiles(mem).lo \/ numberOfDexFiles(mem).hi # 0

\* (u4)nCsums != pVdexHeader->numberOfDexFiles
CsumCountMismatch(nCsums, mem) == U4Of(nCsums) # numberOfDexFiles(mem)

\* for (i = 0; i < numberOfDexFiles; ++i) vdex_SetLocationChecksum(buf, i, checksums[i])
RECURSIVE SetLocationChecksums(_, _, _, _)
SetLocationChecksums(mem, i, n, csums) ==
  IF i >= n THEN mem
  ELSE SetLocationChecksums(vdex_SetLocationChecksum(mem, i, csums[i + 1]), i + 1, n, csums)

\* What is done to a file mapping, as a sequence of steps: utils_mapFileToRead
\* gives a buffer and a descriptor ("map") or NULL ("mapfail"), the buffer is
\* read or written ("use"), and munmap and close give them back.
MapOk == << "map" >>
MapFailed == << "mapfail" >>
Use == << "use" >>

\* munmap(buf, fileSz); close(srcfd);
Release_NoClose == << "munmap" >>
Release == << "munmap", "close" >>

\* vdex_updateChecksums(inVdexFileName, nCsums, checksums, pRunArgs) on a file of
\* at least a header: the possible outcomes, each with the value returned, the
\* mapped buffer as it is left, and what the output sink was handed.  The map
\* and the sink may fail; a store past the end of the mapping is undefined and
\* may fault.
vdex_updateChecksums(inVdexFile, nCsums, csums) ==
  LET skip == [mapped |-> TRUE, fault |-> FALSE, ret |-> FALSE,
               mem |-> inVdexFile, sunk |-> << >>,
               steps |-> MapOk \o Use \o Release]
  IN  { [mapped |-> FALSE, fault |-> FALSE, ret |-> FALSE, mem |-> inVdexFile, sunk |-> << >>,
         steps |-> MapFailed] }
      \cup
      IF ~vdex_isValidVdex(inVdexFile) THEN { skip }
      ELSE IF CsumCountMismatch(nCsums, inVdexFile) THEN { skip }
      ELSE LET n == numberOfDexFiles(inVdexFile).lo
               out == SetLocationChecksums(inVdexFile, 0, n, csums)
           IN  { [mapped |-> TRUE, fault |-> FALSE, ret |-> written,
                  mem |-> out, sunk |-> << [buf |-> out, fileSz |-> Len(out)] >>,
                  steps |-> MapOk \o Use \o Release]
                 : written \in BOOLEAN }
               \cup
               IF ChecksumOffset(n) > Len(inVdexFile)
               THEN { [mapped |-> TRUE, fault |-> TRUE, ret |-> FALSE,
                       mem |-> inVdexFile, sunk |-> << >>,
                       steps |-> MapOk \o Use] }
               ELSE { }

\* ----------------------------------------------------------- backends

kBackendV6 == 0
kBackendV10 == 1
kBackendMax == 2

\* The four static function pointers of vdex.c, unset at program start.
UnboundBackend ==
  [initDepsInfoPtr |-> "NULL", destroyDepsInfoPtr |-> "NULL",
   dumpDepsInfoPtr |-> "NULL", processPtr |-> "NULL"]

\* Mutant: the v10 case leaves the v6 unquickener bound.
vdex_backendInit_V10ProcessV6(ver, bound) ==
  IF ver = kBackendV6
  THEN [initDepsInfoPtr |-> "v6", destroyDepsInfoPtr |-> "v6",
        dumpDepsInfoPtr |-> "v6", processPtr |-> "v6"]
  ELSE IF ver = kBackendV10
  THEN [initDepsInfoPtr |-> "v10", destroyDepsInfoPtr |-> "v10",
        dumpDepsInfoPtr |-> "v10", processPtr |-> "v6"]
  ELSE bound

\* vdex_backendInit(ver): the pointers after the call, given them before it.
vdex_backendInit(ver, bound) ==
  IF ver = kBackendV6
  THEN [initDepsInfoPtr |-> "v6", destroyDepsInfoPtr |-> "v6",
        dumpDepsInfoPtr |-> "v6", processPtr |-> "v6"]
  ELSE IF ver = kBackendV10
  THEN [initDepsInfoPtr |-> "v10", destroyDepsInfoPtr |-> "v10",
        dumpDepsInfoPtr |-> "v10", processPtr |-> "v10"]
  ELSE bound

\* strtol(s, &end, 10) on the bytes from position i: white space, an optional
\* sign, then decimal digits up to the first byte that is none.  Values past
\* StrtolCap stand for LONG_MAX.
StrtolCap == 100000000

IsSpace(b) == b = 32 \/ b \in 9..13
IsDigit(b) == b \in 48..57

RECURSIVE StrtolDigits(_, _, _)
StrtolDigits(mem, i, acc) ==
  IF i <= Len(mem) /\ IsDigit(mem[i])
  THEN IF acc >= StrtolCap THEN StrtolCap
       ELSE StrtolDigits(mem, i + 1, 10 * acc + (mem[i] - 48))
  ELSE acc

RECURSIVE SkipSpace(_, _)
SkipSpace(mem, i) ==
  IF i <= Len(mem) /\ IsSpace(mem[i]) THEN SkipSpace(mem, i + 1) ELSE i

strtol(mem, i) ==
  LET j == SkipSpace(mem, i)
  IN  IF j <= Len(mem) /\ mem[j] = 45 THEN 0 - StrtolDigits(mem, j + 1, 0)
      ELSE IF j <= Len(mem) /\ mem[j] = 43 THEN StrtolDigits(mem, j + 1, 0)
      ELSE StrtolDigits(mem, j, 0)

\* selectVdexBackend(cursor): whether it returned true, and the pointers after it.
selectVdexBackend(mem, bound) ==
  LET v == strtol(mem, OffVersion + 1)
  IN  IF v = 6 THEN [ok |-> TRUE, bound |-> vdex_backendInit(kBackendV6, bound)]
      ELSE IF v = 10 THEN [ok |-> TRUE, bound |-> vdex_backendInit(kBackendV10, bound)]
      ELSE [ok |-> FALSE, bound |-> bound]

\* ----------------------------------------------------------- input files

Fill(k, b) == [i \in 1..k |-> b]

RECURSIVE Cat(_)
Cat(ss) == IF ss = << >> THEN << >> ELSE Head(ss) \o Cat(Tail(ss))

\* An embedded DEX of len bytes whose header declares fileSize.
DexBytes(fileSize, len) ==
  [i \in 1..len |->
     IF i \in (OffDexFileSize + 1)..(OffDexFileSize + 4) THEN LE(fileSize)[i - OffDexFileSize]
     ELSE IF i <= 3 THEN << 100, 101, 120 >>[i]
     ELSE 0]

\* A file: the header as given, then the checksums, the DEX files and a tail.
VdexBytes(magic, version, n, dSz, vSz, qSz, csums, dexes, tail) ==
  magic \o version \o LE(n) \o LE(dSz) \o LE(vSz) \o LE(qSz)
    \o Cat([i \in 1..Len(csums) |-> LE(csums[i])])
    \o Cat(dexes) \o tail

\* Samples of u4 header values: small ones and ones whose sums wrap.
U4Samples ==
  { U4Of(0), U4Of(1), U4Of(2), U4Of(SizeofDexHeader),
    U4(2^14, 0), U4(W16 - 1, W16 - 1), U4(W16 - 1, W16 - 28) }

V006 == kVdexMagicVersions[1]
V010 == kVdexMagicVersions[2]

\* Bare headers, for the section accessors.
HeaderCatalog ==
  { VdexBytes(kVdexMagic, V010, n, d, v, q, << >>, << >>, << >>) :
      n \in U4Samples, d \in U4Samples, v \in U4Samples, q \in { U4Of(0), U4Of(2) } }

\* The fileSize fields of the DEX files physically present (each is one bare
\* DEX header long).
DexShapes ==
  { << U4Of(112) >>, << U4Of(112), U4Of(112) >>, << U4Of(200) >>,
    << U4Of(112), U4Of(150) >>, << U4(W16 - 1, W16 - 16) >>, << U4Of(0) >> }

TailShapes == { << >>, Fill(40, 0), Fill(40, 255) }

\* Containers that pass main's size check and vdex_isValidVdex, well formed or not.
ContainerCatalog ==
  { VdexBytes(kVdexMagic, V006, n, d, U4Of(Len(t)), U4Of(0),
              [i \in 1..(IF n.hi = 0 THEN n.lo ELSE 0) |-> U4Of(10 + i)],
              [i \in 1..Len(shape) |-> DexBytes(shape[i], SizeofDexHeader)], t) :
      n \in { U4Of(0), U4Of(1), U4Of(2), U4(2^14, 0) },
      d \in { U4Of(0), U4Of(112), U4Of(224) },
      shape \in DexShapes, t \in TailShapes }

\* ------------------------------------------------- the section accessors

MainIdle ==
  /\ files = << >> /\ runArgs = [dumpDeps |-> FALSE, newCrcFile |-> FALSE]
  /\ pc = "idle" /\ f = 0
  /\ buf = << >> /\ backend = UnboundBackend /\ calls = << >>
  /\ processedVdexCnt = 0 /\ processedDexCnt = 0 /\ mainRet = "idle"
  /\ mapLog = << >>

CsumIdle ==
  /\ vdexFile = << >> /\ checksums = << >> /\ sink = << >> /\ rets = << >>

InitLayout ==
  /\ MainIdle /\ CsumIdle
  /\ cursor \in HeaderCatalog
  /\ offset = U4Of(0) /\ iterLog = << >> /\ layout = << >>

\* Every section accessor of vdex.c applied to the mapped header.
Accessors ==
  /\ layout = << >>
  /\ layout' = << [ checksums |-> U4Of(SizeofVdexHeader),
                 checksumsSize |-> vdex_GetSizeOfChecksumsSection(cursor),
                 DexBegin |-> vdex_DexBegin(cursor),
                 DexBeginOffset |-> vdex_DexBeginOffset(cursor),
                 DexEnd |-> vdex_DexEnd(cursor),
                 DexEndOffset |-> vdex_DexEndOffset(cursor),
                 VerifierDepsData |-> vdex_GetVerifierDepsData(cursor),
                 VerifierDepsDataOffset |-> vdex_GetVerifierDepsDataOffset(cursor),
                 QuickeningInfo |-> vdex_GetQuickeningInfo(cursor),
                 QuickeningInfoOffset |-> vdex_GetQuickeningInfoOffset(cursor) ] >>
  /\ UNCHANGED << mainVars, csumVars, cursor, offset, iterLog >>

NextLayout == Accessors

SpecLayout == InitLayout /\ [][NextLayout]_vars

\* ------------------------------------------------- the DEX iterator

MaxIterCalls == 3

InitIter ==
  /\ MainIdle /\ CsumIdle
  /\ cursor \in ContainerCatalog
  /\ offset = U4Of(0) /\ iterLog = << >> /\ layout = << >>

Faulted == iterLog # << >> /\ iterLog[Len(iterLog)].fault

\* One call of vdex_GetNextDexFileData(cursor, &offset) by the code walking the
\* container; pre is *offset before the call.
GetNextDexFileData ==
  /\ Len(iterLog) < MaxIterCalls
  /\ ~Faulted
  /\ \E r \in vdex_GetNextDexFileData(cursor, offset) :
       /\ offset' = r.offset
       /\ iterLog' = Append(iterLog, [pre |-> offset, fault |-> r.fault, ret |-> r.ret,
                                      fileSize |-> r.fileSize, post |-> r.offset,
                                      inMapping |-> r.inMapping])
  /\ UNCHANGED << mainVars, csumVars, cursor, layout >>

NextIter == GetNextDexFileData

SpecIter == InitIter /\ [][NextIter]_vars

\* ------------------------------------------------- checksum rewrite

MaxCsums == 2
MaxUpdates == 2

\* Checksums a sidecar file may hold: 22 and 0x11111111.
CsumSamples == { U4Of(22), U4(4369, 4369) }

CsumLists == UNION { [1..k -> CsumSamples] : k \in 1..MaxCsums }

V011 == << 48, 49, 49, 0 >>

\* Files handed to the checksum rewrite: n DEX files declared, one DEX present,
\* the checksum table present or cut off after the header.
CsumFileCatalog ==
  { VdexBytes(magic, version, U4Of(n), U4Of(SizeofDexHeader), U4Of(0), U4Of(0),
              IF cut THEN << >> ELSE [i \in 1..n |-> U4Of(9 + i)],
              IF cut THEN << >> ELSE << DexBytes(U4Of(SizeofDexHeader), SizeofDexHeader) >>,
              << >>) :
      magic \in { kVdexMagic, << 118, 100, 101, 121 >> },
      version \in { V006, V010, V011 },
      n \in 0..MaxCsums, cut \in BOOLEAN }

IterIdle ==
  /\ cursor = << >> /\ offset = U4Of(0) /\ iterLog = << >> /\ layout = << >>

InitCsum ==
  /\ MainIdle /\ IterIdle
  /\ vdexFile \in CsumFileCatalog
  /\ checksums \in CsumLists
  /\ sink = << >> /\ rets = << >>

\* One run of vdex_updateChecksums on the file currently named as input.
UpdateChecksums ==
  /\ Len(rets) < MaxUpdates
  /\ (rets # << >> => ~rets[Len(rets)].fault)
  /\ \E r \in vdex_updateChecksums(vdexFile, Len(checksums), checksums) :
       /\ rets' = Append(rets, [in |-> vdexFile, mapped |-> r.mapped, fault |-> r.fault,
                                ret |-> r.ret, mem |-> r.mem, sunk |-> r.sunk])
       /\ sink' = sink \o r.sunk
  /\ UNCHANGED << mainVars, iterVars, vdexFile, checksums >>

\* The file the sink wrote becomes the input of the next run.
UseOutputAsInput ==
  /\ rets # << >>
  /\ rets[Len(rets)].ret
  /\ rets[Len(rets)].in = vdexFile
  /\ vdexFile' = sink[Len(sink)].buf
  /\ UNCHANGED << mainVars, iterVars, checksums, sink, rets >>

NextCsum == UpdateChecksums \/ UseOutputAsInput

SpecCsum == InitCsum /\ [][NextCsum]_vars

\* ------------------------------------------------- main()

MaxFiles == 2

\* A container with one DEX: magic, version, declared verifierDepsSize, and
\* the number of bytes actually following the DEX.
OneDexFile(magic, version, vSz, tailLen) ==
  VdexBytes(magic, version, U4Of(1), U4Of(SizeofDexHeader), U4Of(vSz), U4Of(0),
            << U4Of(10) >>, << DexBytes(U4Of(SizeofDexHeader), SizeofDexHeader) >>,
            Fill(tailLen, 7))

\* Input files: well-formed v6 and v10 containers, a container whose declared
\* verifier-deps section is not in the file, a wrong magic, versions that are
\* not recognised ("011\0", "6\0\0\0"), and a file below the minimum size.
MainFileCatalog ==
  { OneDexFile(kVdexMagic, V006, 2, 2),
    OneDexFile(kVdexMagic, V010, 2, 2),
    OneDexFile(kVdexMagic, V010, 1000, 0),
    OneDexFile(<< 118, 100, 101, 121 >>, V006, 2, 2),
    OneDexFile(kVdexMagic, V011, 2, 2),
    OneDexFile(kVdexMagic, << 54, 0, 0, 0 >>, 2, 2),
    VdexBytes(kVdexMagic, V006, U4Of(0), U4Of(0), U4Of(0), U4Of(0),
              << >>, << >>, Fill(SizeofDexHeader - 1, 0)) }

FileLists == UNION { [1..k -> MainFileCatalog] : k \in 1..MaxFiles }

\* The state at line 169 of vdexExtractor.c: the options are parsed and the
\* input files are loaded.  checksums is what utils_processFileWithCsums gives
\* for the --new-crc file (empty when it gives nothing).
Init ==
  /\ IterIdle
  /\ files \in FileLists
  /\ runArgs \in [dumpDeps : BOOLEAN, newCrcFile : BOOLEAN]
  /\ checksums \in (IF runArgs.newCrcFile THEN CsumLists \cup { << >> } ELSE { << >> })
  /\ pc = "start" /\ f = 0 /\ buf = << >>
  /\ backend = UnboundBackend /\ calls = << >>
  /\ processedVdexCnt = 0 /\ processedDexCnt = 0
  /\ mainRet = "EXIT_FAILURE"
  /\ mapLog = << >>
  /\ vdexFile = << >> /\ sink = << >> /\ rets = << >>

Call(fn, ret, bound) == [file |-> f, fn |-> fn, ret |-> ret, bound |-> bound]

\* The steps taken on the mapping of input file number file.
Steps(ops, file) == [i \in 1..Len(ops) |-> [op |-> ops[i], file |-> file]]

\* munmap(buf, fileSz); close(srcfd); continue;  after the steps given.
SkipFile_Break(ops) ==
  /\ buf' = << >>
  /\ mapLog' = mapLog \o Steps(ops \o Release, f)
  /\ f' = Len(files)
  /\ pc' = "loop"
SkipFile(ops) ==
  /\ buf' = << >>
  /\ mapLog' = mapLog \o Steps(ops \o Release, f)
  /\ f' = f + 1
  /\ pc' = "loop"

\* Lines 172-196: the --new-crc run.
UpdateLocationChecksums ==
  /\ pc = "start"
  /\ runArgs.newCrcFile
  /\ IF Len(files) # 1 \/ checksums = << >>
     THEN /\ pc' = "done"
          /\ UNCHANGED << mainRet, mapLog, sink, rets >>
     ELSE \E r \in vdex_updateChecksums(files[1], Len(checksums), checksums) :
            /\ pc' = IF r.fault THEN "crashed" ELSE "done"
            /\ mainRet' = IF r.fault THEN "SIGSEGV"
                          ELSE IF r.ret THEN "EXIT_SUCCESS" ELSE mainRet
            /\ mapLog' = mapLog \o Steps(r.steps, 0)
            /\ sink' = sink \o r.sunk
            /\ rets' = Append(rets, [in |-> files[1], mapped |-> r.mapped, fault |-> r.fault,
                                     ret |-> r.ret, mem |-> r.mem, sunk |-> r.sunk])
  /\ UNCHANGED << files, runArgs, f, buf, backend, calls, processedVdexCnt,
                  processedDexCnt, iterVars, vdexFile, checksums >>

\* Lines 198-199: the extraction run begins.
BeginExtraction ==
  /\ pc = "start"
  /\ ~runArgs.newCrcFile
  /\ pc' = "loop"
  /\ UNCHANGED << files, runArgs, f, buf, backend, calls, processedVdexCnt,
                  processedDexCnt, mainRet, mapLog, iterVars, csumVars >>

\* Lines 201-213: the next file is mapped, or the map fails and it is skipped.
MapFile ==
  /\ pc = "loop"
  /\ f < Len(files)
  /\ \E mapped \in BOOLEAN :
       IF mapped
       THEN /\ buf' = files[f + 1] /\ pc' = "mapped" /\ f' = f
            /\ mapLog' = mapLog \o Steps(MapOk, f)
       ELSE /\ buf' = << >> /\ pc' = "loop" /\ f' = f + 1
            /\ mapLog' = mapLog \o Steps(MapFailed, f)
  /\ UNCHANGED << files, runArgs, backend, calls, processedVdexCnt,
                  processedDexCnt, mainRet, iterVars, csumVars >>

\* Lines 215-221: the minimum size.
CheckSize ==
  /\ pc = "mapped"
  /\ IF Len(buf) < SizeofVdexHeader + SizeofDexHeader
     THEN SkipFile(<< >>)
     ELSE pc' = "sized" /\ UNCHANGED << f, buf, mapLog >>
  /\ UNCHANGED << files, runArgs, backend, calls, processedVdexCnt,
                  processedDexCnt, mainRet, iterVars, csumVars >>

\* Lines 223-230: magic and version.
ValidateHeader ==
  /\ pc = "sized"
  /\ calls' = Append(calls, Call("vdex_isValidVdex",
                                 IF vdex_isValidVdex(buf) THEN 1 ELSE 0, backend))
  /\ IF ~vdex_isValidVdex(buf)
     THEN SkipFile(Use)
     ELSE /\ pc' = "valid" /\ UNCHANGED << f, buf >>
          /\ mapLog' = mapLog \o Steps(Use, f)
  /\ UNCHANGED << files, runArgs, backend, processedVdexCnt,
                  processedDexCnt, mainRet, iterVars, csumVars >>

\* Lines 232-237: the backend of the file's version is bound.
SelectBackend ==
  /\ pc = "valid"
  /\ LET r == selectVdexBackend(buf, backend)
     IN  /\ backend' = r.bound
         /\ calls' = Append(calls, Call("selectVdexBackend", IF r.ok THEN 1 ELSE 0, r.bound))
         /\ IF ~r.ok
            THEN SkipFile(Use)
            ELSE /\ pc' = "selected" /\ UNCHANGED << f, buf >>
                 /\ mapLog' = mapLog \o Steps(Use, f)
  /\ UNCHANGED << files, runArgs, processedVdexCnt,
                  processedDexCnt, mainRet, iterVars, csumVars >>

\* Lines 239-257: the verifier dependencies are dumped when asked for; the
\* decoder gives data or NULL.
DumpDeps ==
  /\ pc = "selected"
  /\ IF runArgs.dumpDeps
     THEN /\ \E pDepsData \in { 0, 1 } :
               calls' = calls
                 \o << Call("vdex_initDepsInfo", pDepsData, backend) >>
                 \o (IF pDepsData = 0 THEN << >>
                     ELSE << Call("vdex_dumpDepsInfo", 0, backend),
                             Call("vdex_destroyDepsInfo", 0, backend) >>)
          /\ mapLog' = mapLog \o Steps(Use, f)
     ELSE UNCHANGED << calls, mapLog >>
  /\ pc' = "process"
  /\ UNCHANGED << files, runArgs, f, buf, backend, processedVdexCnt,
                  processedDexCnt, mainRet, iterVars, csumVars >>

\* What vdex_process may return: -1, or the number of DEX files it handled.
ProcessResults(mem) ==
  { -1, 0 } \cup (IF numberOfDexFiles(mem).hi = 0 THEN { numberOfDexFiles(mem).lo } ELSE { })

\* Lines 259-274: the DEX files are processed and the mapping is released.
Process ==
  /\ pc = "process"
  /\ \E ret \in ProcessResults(buf) :
       /\ calls' = Append(calls, Call("vdex_process", ret, backend))
       /\ IF ret = -1
          THEN UNCHANGED << processedVdexCnt, processedDexCnt >>
          ELSE /\ processedDexCnt' = processedDexCnt + ret
               /\ processedVdexCnt' = processedVdexCnt + 1
  /\ SkipFile(Use)
  /\ UNCHANGED << files, runArgs, backend, mainRet, iterVars, csumVars >>

\* Lines 277-285: the summary and the exit.
Finish_FailWhenNoneProcessed ==
  /\ pc = "loop"
  /\ f = Len(files)
  /\ mainRet' = (IF processedVdexCnt > 0 THEN "EXIT_SUCCESS" ELSE mainRet)
  /\ pc' = "done"
  /\ UNCHANGED << files, runArgs, f, buf, backend, calls, processedVdexCnt,
                  processedDexCnt, mapLog, iterVars, csumVars >>
Finish ==
  /\ pc = "loop"
  /\ f = Len(files)
  /\ mainRet' = "EXIT_SUCCESS"
  /\ pc' = "done"
  /\ UNCHANGED << files, runArgs, f, buf, backend, calls, processedVdexCnt,
                  processedDexCnt, mapLog, iterVars, csumVars >>

Next ==
  \/ UpdateLocationChecksums
  \/ BeginExtraction
  \/ MapFile
  \/ CheckSize
  \/ ValidateHeader
  \/ SelectBackend
  \/ DumpDeps
  \/ Process
  \/ Finish

Spec == Init /\ [][Next]_vars

\* main() is one sequential thread: whenever a step is possible it is taken.
SpecFair == Spec /\ WF_vars(Next)

\* ------------------------------------------------- properties: layout

\* The section offsets as plain sums, nothing truncated.
SumDexBegin(c) == WideAdd(U4Of(24), WideScale(4, numberOfDexFiles(c)))
SumDexEnd(c) == WideAdd(SumDexBegin(c), dexSize(c))
SumQuickening(c) == WideAdd(SumDexEnd(c), verifierDepsSize(c))

\* C2: for every header whose sums fit in 32 bits the sections lie back to
\* back: checksums at 24 and 4*n long, DEX files from 24 + 4*n, verifier deps
\* from there plus dexSize (which is also the end of the DEX files), quickening
\* info from there plus verifierDepsSize; and each pointer accessor is the
\* buffer base plus the offset accessor.
C2_SectionsBackToBack ==
  (layout # << >> /\ FitsU4(SumQuickening(cursor))) =>
    LET L == layout[1]
    IN  /\ L.checksums = U4Of(24)
        /\ L.checksumsSize = WideScale(4, numberOfDexFiles(cursor))
        /\ L.DexBeginOffset = SumDexBegin(cursor)
        /\ L.DexEndOffset = SumDexEnd(cursor)
        /\ L.VerifierDepsDataOffset = L.DexEndOffset
        /\ L.QuickeningInfoOffset = SumQuickening(cursor)
        /\ L.DexBegin = L.DexBeginOffset
        /\ L.DexEnd = L.DexEndOffset
        /\ L.VerifierDepsData = L.VerifierDepsDataOffset
        /\ L.QuickeningInfo = L.QuickeningInfoOffset

\* C2 witness: the accessors were applied to a header with two DEX files, a
\* non-empty DEX section and non-empty verifier deps, all sums in range.
C2_Witness ==
  /\ layout # << >>
  /\ FitsU4(SumQuickening(cursor))
  /\ numberOfDexFiles(cursor) = U4Of(2)
  /\ dexSize(cursor) = U4Of(112)
  /\ verifierDepsSize(cursor) = U4Of(2)
  /\ layout[1].QuickeningInfoOffset = U4Of(146)

\* ------------------------------------------------- properties: iterator

\* The calls up to the first one that yielded nothing.
RECURSIVE Yielded(_)
Yielded(log) ==
  IF log = << >> \/ Head(log).fault \/ Head(log).ret = NULL
  THEN << >>
  ELSE << Head(log) >> \o Yielded(Tail(log))

SliceEnd(e) == WideAdd(e.ret, e.fileSize)

\* The call read its DEX header inside the mapping and the header declares at
\* least its own length.
Proper(e) == e.inMapping /\ WideLeq(U4Of(112), e.fileSize)

\* The claims below are read on headers whose section sums fit in 32 bits and
\* on calls that read inside the mapping, so that what refutes them is the
\* code's defined behaviour.
SumsFit == FitsU4(SumQuickening(cursor))

\* C4 (as claimed): the first slice begins at 24 + 4*n, each later slice begins
\* where the previous one ended, and the n-th slice ends at the verifier-deps
\* offset.
C4_SlicesTileDexSection ==
  SumsFit =>
    LET ys == Yielded(iterLog)
        n == numberOfDexFiles(cursor).lo
    IN  (\A k \in 1..Len(ys) : Proper(ys[k])) =>
          /\ ys # << >> => ys[1].ret = SumDexBegin(cursor)
          /\ \A k \in 1..(Len(ys) - 1) : ys[k + 1].ret = SliceEnd(ys[k])
          /\ (n >= 1 /\ Len(ys) >= n) => SliceEnd(ys[n]) = SumDexEnd(cursor)

\* C5 (as claimed): a step whose slice would extend past the end of the DEX
\* section returns NULL, on the first step as on the later ones.
C5_OverrunningStepFails ==
  SumsFit =>
    \A k \in 1..Len(iterLog) :
      LET e == iterLog[k]
          base == IF e.pre = U4Of(0) THEN SumDexBegin(cursor) ELSE e.pre
      IN  (~e.fault /\ e.inMapping /\ ~WideLeq(WideAdd(base, e.fileSize), SumDexEnd(cursor)))
            => e.ret = NULL

\* C6 (as claimed): a call made with the cursor at the end of the DEX section
\* yields nothing and leaves the cursor alone, whatever bytes follow; and a
\* container with dexSize = 0 yields nothing at all.
C6_IteratorEndsAtBoundary ==
  SumsFit =>
    \A k \in 1..Len(iterLog) :
      LET e == iterLog[k]
      IN  /\ (~e.fault /\ e.inMapping /\ e.pre # U4Of(0) /\ e.pre = SumDexEnd(cursor))
             => (e.ret = NULL /\ e.post = e.pre)
          /\ (~e.fault /\ dexSize(cursor) = U4Of(0)) => e.ret = NULL

\* ------------------------------------------------- properties: main()

FileOf(e) == files[e.file + 1]

\* The first 4 bytes are 'vdex' and the next 4 are "006\0" or "010\0".
AcceptedBytes(file) ==
  /\ file[1] = 118 /\ file[2] = 100 /\ file[3] = 101 /\ file[4] = 120
  /\ \/ (file[5] = 48 /\ file[6] = 48 /\ file[7] = 54 /\ file[8] = 0)
     \/ (file[5] = 48 /\ file[6] = 49 /\ file[7] = 48 /\ file[8] = 0)

\* C1: in the extraction loop vdex_isValidVdex accepts a file exactly when its
\* first 4 bytes are 'vdex' and its next 4 are "006\0" or "010\0"; for a file it
\* does not accept there is no backend selection, no deps call and no
\* vdex_process, and the file is not counted as processed.
C1_RejectedBeforeFurtherWork ==
  /\ \A k \in 1..Len(calls) :
       LET e == calls[k]
       IN  IF e.fn = "vdex_isValidVdex"
           THEN (e.ret = 1) <=> AcceptedBytes(FileOf(e))
           ELSE AcceptedBytes(FileOf(e))
  /\ processedVdexCnt =
       Cardinality({ k \in 1..Len(calls) :
                       calls[k].fn = "vdex_process" /\ calls[k].ret # -1
                         /\ AcceptedBytes(FileOf(calls[k])) })

\* C1 witness: the run is over; the first file, of version "011\0", was
\* rejected and nothing else was called for it, the second was processed.
C1_Witness ==
  /\ pc = "done"
  /\ Len(files) = 2
  /\ SubSeq(files[1], 1, 8) = << 118, 100, 101, 120, 48, 49, 49, 0 >>
  /\ Len(calls) >= 2
  /\ calls[1].file = 0 /\ calls[1].fn = "vdex_isValidVdex" /\ calls[1].ret = 0
  /\ calls[2].file = 1
  /\ processedVdexCnt = 1

\* C3 (as claimed): every file handed on to backend selection and vdex_process
\* has fileSize = 24 + 4*numberOfDexFiles + dexSize + verifierDepsSize +
\* quickeningInfoSize.
C3_ProcessedFilesMatchHeaderSizes ==
  \A k \in 1..Len(calls) :
    LET e == calls[k]
    IN  e.fn \in { "selectVdexBackend", "vdex_process" } =>
          U4Of(Len(FileOf(e))) =
            WideAdd(SumQuickening(FileOf(e)), quickeningInfoSize(FileOf(e)))

BoundEntryPoints ==
  { "vdex_initDepsInfo", "vdex_dumpDepsInfo", "vdex_destroyDepsInfo", "vdex_process" }

\* The backend of the version the file's version field parses to.
VariantOf(file) ==
  LET v == strtol(file, 5)
  IN  IF v = 6 THEN "v6" ELSE IF v = 10 THEN "v10" ELSE "none"

\* C7: whenever one of the four bound entry points is invoked for a file, all
\* four pointers are the variant of that file's own version; a file whose
\* version parses to neither 6 nor 10 has none of them invoked.
C7_BackendIsTheFilesOwn ==
  \A k \in 1..Len(calls) :
    LET e == calls[k]
    IN  e.fn \in BoundEntryPoints =>
          /\ VariantOf(FileOf(e)) \in { "v6", "v10" }
          /\ e.bound.initDepsInfoPtr = VariantOf(FileOf(e))
          /\ e.bound.dumpDepsInfoPtr = VariantOf(FileOf(e))
          /\ e.bound.destroyDepsInfoPtr = VariantOf(FileOf(e))
          /\ e.bound.processPtr = VariantOf(FileOf(e))

\* C7 witness: a v6 file and then a v10 file had their deps dumped and were
\* processed, each through its own variant.
C7_Witness ==
  /\ pc = "done"
  /\ Len(files) = 2
  /\ runArgs.dumpDeps
  /\ VariantOf(files[1]) = "v6" /\ VariantOf(files[2]) = "v10"
  /\ \E i, j \in 1..Len(calls) :
       /\ i < j
       /\ calls[i].file = 0 /\ calls[i].fn = "vdex_destroyDepsInfo"
       /\ calls[i].bound.destroyDepsInfoPtr = "v6"
       /\ calls[j].file = 1 /\ calls[j].fn = "vdex_process"
       /\ calls[j].bound.processPtr = "v10"

\* ------------------------------------------------- properties: checksum rewrite

\* The file holds its whole checksum table.
HoldsChecksumTable(file) ==
  numberOfDexFiles(file).hi = 0 /\ 24 + 4 * numberOfDexFiles(file).lo <= Len(file)

\* C8: a run on a file with valid magic and version that holds its checksum
\* table, with as many checksums as numberOfDexFiles, hands the sink the whole
\* file, in which the little-endian word at 24 + 4*i is checksums[i] for every
\* i below numberOfDexFiles and every other byte is the input's.
C8_OnlyChecksumTableRewritten ==
  \A k \in 1..Len(rets) :
    LET r == rets[k]
        n == numberOfDexFiles(r.in).lo
    IN  (r.mapped /\ vdex_isValidVdex(r.in) /\ HoldsChecksumTable(r.in)
           /\ Len(checksums) = n)
        => /\ Len(r.sunk) = 1
           /\ r.sunk[1].fileSz = Len(r.in)
           /\ Len(r.sunk[1].buf) = Len(r.in)
           /\ \A i \in 0..(n - 1) :
                SubSeq(r.sunk[1].buf, 24 + 4 * i + 1, 24 + 4 * i + 4) = LE(checksums[i + 1])
           /\ \A b \in 1..Len(r.in) :
                (b <= 24 \/ b > 24 + 4 * n) => r.sunk[1].buf[b] = r.in[b]

\* C8 witness: two checksums were written over a different table (scenario S4),
\* the rest of the file being the header and a DEX.
C8_Witness ==
  /\ rets # << >>
  /\ rets[1].mapped /\ vdex_isValidVdex(rets[1].in) /\ HoldsChecksumTable(rets[1].in)
  /\ numberOfDexFiles(rets[1].in) = U4Of(2)
  /\ checksums = << U4(4369, 4369), U4Of(22) >>
  /\ SubSeq(rets[1].in, 25, 32) = << 10, 0, 0, 0, 11, 0, 0, 0 >>
  /\ Len(rets[1].sunk) = 1
  /\ SubSeq(rets[1].sunk[1].buf, 25, 32) = << 17, 17, 17, 17, 22, 0, 0, 0 >>

\* C9: a run on a mapped file whose magic or version is not valid, or whose
\* numberOfDexFiles differs from the number of checksums, returns false, leaves
\* every byte of the buffer as it was and hands nothing to the sink.
C9_MismatchSkipsFile ==
  \A k \in 1..Len(rets) :
    LET r == rets[k]
    IN  (r.mapped /\ (~vdex_isValidVdex(r.in)
                        \/ numberOfDexFiles(r.in) # U4Of(Len(checksums))))
        => (~r.ret /\ r.mem = r.in /\ r.sunk = << >> /\ ~r.fault)

\* C9 witness: a valid file declaring one DEX was run with two checksums.
C9_Witness ==
  /\ rets # << >>
  /\ rets[1].mapped /\ vdex_isValidVdex(rets[1].in)
  /\ numberOfDexFiles(rets[1].in) = U4Of(1)
  /\ Len(checksums) = 2
  /\ ~rets[1].ret

\* C10: a run on the output of a successful run with the same checksums hands
\* the sink the bytes the first run handed it.
C10_RewriteIdempotent ==
  \A k \in 1..(Len(rets) - 1) :
    (rets[k].ret /\ rets[k + 1].in = rets[k].sunk[1].buf /\ rets[k + 1].mapped
       /\ ~rets[k + 1].fault)
    => /\ Len(rets[k + 1].sunk) = 1
       /\ rets[k + 1].sunk[1] = rets[k].sunk[1]

\* C10 witness: the second run took the first run's output, which differs from
\* the original file, and succeeded.
C10_Witness ==
  /\ Len(rets) = 2
  /\ rets[1].ret /\ rets[2].ret
  /\ rets[1].sunk[1].buf # rets[1].in
  /\ rets[2].in = rets[1].sunk[1].buf

\* ------------------------------------------------- properties: the file loop

\* The calls of utils_mapFileToRead so far, failed ones included.
MapAttempts == SelectSeq(mapLog, LAMBDA e : e.op \in { "map", "mapfail" })

MappedOk(file) == \E i \in 1..Len(mapLog) : mapLog[i] = [op |-> "map", file |-> file]

BigEnough(mem) == Len(mem) >= SizeofVdexHeader + SizeofDexHeader

CallsOf(fn, file) ==
  Cardinality({ i \in 1..Len(calls) : calls[i].fn = fn /\ calls[i].file = file })

\* How far a file gets depends on that file alone.
OwnProgress(file) ==
  LET mem == files[file + 1]
      sized == MappedOk(file) /\ BigEnough(mem)
      valid == sized /\ vdex_isValidVdex(mem)
      selected == valid /\ selectVdexBackend(mem, UnboundBackend).ok
  IN  /\ CallsOf("vdex_isValidVdex", file) = (IF sized THEN 1 ELSE 0)
      /\ CallsOf("selectVdexBackend", file) = (IF valid THEN 1 ELSE 0)
      /\ CallsOf("vdex_process", file) = (IF selected THEN 1 ELSE 0)

AttemptedInOrder ==
  /\ \A i \in 1..Len(MapAttempts) : MapAttempts[i].file = i - 1
  /\ pc = "done" =>
        /\ Len(MapAttempts) = Len(files)
        /\ \A file \in 0..(Len(files) - 1) : OwnProgress(file)

\* C11: in an extraction run the files are mapped one after another in list
\* order, each exactly once whatever happened to the files before it; every
\* file that maps gets as far as its own size, header and version allow, and
\* is validated, bound and processed at most once; and the loop comes to its
\* end.
C11_EveryFileAttemptedOnce ==
  ~runArgs.newCrcFile => ([]AttemptedInOrder /\ <>(pc = "done"))

\* A two-file run whose first file is rejected on its header and whose second
\* file is processed.
C11_Witness ==
  /\ pc = "done" /\ ~runArgs.newCrcFile /\ Len(files) = 2
  /\ \E i \in 1..Len(calls) :
       calls[i] = [file |-> 0, fn |-> "vdex_isValidVdex", ret |-> 0, bound |-> UnboundBackend]
  /\ \E i \in 1..Len(calls) :
       calls[i].file = 1 /\ calls[i].fn = "vdex_process" /\ calls[i].ret >= 0

\* ------------------------------------------------- properties: the exit status

\* vdex_updateChecksums was called and returned.
ChecksumRunReturned == runArgs.newCrcFile /\ rets # << >> /\ ~rets[1].fault

\* C12, unqualified: every run that completes exits with success, the checksum
\* run whose single file was skipped included.
C12_CompletedRunExitsSuccess ==
  (pc = "done" /\ (runArgs.newCrcFile => ChecksumRunReturned)) => mainRet = "EXIT_SUCCESS"

\* C12: a completed extraction run exits with success whatever happened to its
\* files; a completed checksum run exits with success exactly when
\* vdex_updateChecksums returned true, and with failure when the file count is
\* not one, no checksum was loaded, or the file was skipped.
C12_ExitStatusByRunKind ==
  pc = "done" =>
    IF runArgs.newCrcFile
    THEN mainRet = (IF ChecksumRunReturned /\ rets[1].ret THEN "EXIT_SUCCESS" ELSE "EXIT_FAILURE")
    ELSE mainRet = "EXIT_SUCCESS"

\* A checksum run whose file is a valid container with another number of DEX
\* files than checksums were loaded: skipped, and the exit status is failure.
C12_Witness ==
  /\ pc = "done" /\ ChecksumRunReturned
  /\ rets[1].mapped /\ vdex_isValidVdex(files[1])
  /\ CsumCountMismatch(Len(checksums), files[1])
  /\ mainRet = "EXIT_FAILURE"

\* ------------------------------------------------- properties: the mapping's lifetime

\* Where main holds the mapping of files[f].
MappedPcs == { "mapped", "sized", "valid", "selected", "process" }

\* The mapping and the descriptor after the steps of log: live and open say
\* whether they are held, file whose they are, and ok turns false at the first
\* step that comes at the wrong time: a map while something is still held, a
\* use or munmap of what is not mapped, a close of what is not open.
RECURSIVE Lifetime(_, _)
Lifetime(log, st) ==
  IF log = << >> \/ ~st.ok THEN st
  ELSE LET e == Head(log)
           own == e.file = st.file
       IN  Lifetime(Tail(log),
             CASE e.op = "map" ->
                    [ok |-> ~st.live /\ ~st.open, live |-> TRUE, open |-> TRUE, file |-> e.file]
               [] e.op = "mapfail" ->
                    [ok |-> ~st.live /\ ~st.open, live |-> FALSE, open |-> FALSE, file |-> e.file]
               [] e.op = "use" ->
                    [ok |-> st.live /\ own, live |-> st.live, open |-> st.open, file |-> st.file]
               [] e.op = "munmap" ->
                    [ok |-> st.live /\ own, live |-> FALSE, open |-> st.open, file |-> st.file]
               [] e.op = "close" ->
                    [ok |-> st.open /\ own, live |-> st.live, open |-> FALSE, file |-> st.file])

NothingHeld == [ok |-> TRUE, live |-> FALSE, open |-> FALSE, file |-> 0]

StepsOf(op) == Cardinality({ i \in 1..Len(mapLog) : mapLog[i].op = op })

\* C13: in main's loop and in vdex_updateChecksums alike, a file is mapped only
\* while nothing is held, the buffer is used only while it is mapped, and each
\* mapping is unmapped once and its descriptor closed once; between two files,
\* and when the loop or vdex_updateChecksums has returned, nothing is held,
\* whichever path the file took.  (A run killed by a fault inside
\* vdex_updateChecksums returns nowhere.)
C13_MappingReleasedOnEveryPath ==
  LET st == Lifetime(mapLog, NothingHeld)
  IN  /\ st.ok
      /\ pc # "crashed" =>
            /\ st.live <=> pc \in MappedPcs
            /\ st.open <=> pc \in MappedPcs
            /\ buf # << >> <=> st.live
            /\ StepsOf("munmap") = StepsOf("map") - (IF st.live THEN 1 ELSE 0)
            /\ StepsOf("close") = StepsOf("map") - (IF st.open THEN 1 ELSE 0)

\* An extraction run of two files that both mapped, the first given up on an
\* error of vdex_process and the second processed, both released.
C13_Witness ==
  /\ pc = "done" /\ ~runArgs.newCrcFile
  /\ StepsOf("map") = 2 /\ StepsOf("munmap") = 2 /\ StepsOf("close") = 2
  /\ \E i \in 1..Len(calls) :
       calls[i].file = 0 /\ calls[i].fn = "vdex_process" /\ calls[i].ret = -1
  /\ \E i \in 1..Len(calls) :
       calls[i].file = 1 /\ calls[i].fn = "vdex_process" /\ calls[i].ret >= 0

====
